---- MODULE Spec2Model ----
(***************************************************************************)
(* A model of bot.py: the job-feed notifier.  One run of main() loads the  *)
(* seen set from seen_jobs.json, fetches the feed, builds an identity key  *)
(* per listing, posts the first MAX_POSTS_PER_RUN of them to the webhook   *)
(* and saves the seen set.  Python str values are TLA+ strings; a JSON     *)
(* value is a record [tag, v] (see Str, None, Absent, Num below).          *)
(***************************************************************************)
EXTENDS Integers, Sequences, FiniteSets, TLC

VARIABLES
    file,        \* contents of STATE_FILE (seen_jobs.json)
    fileAtStart, \* history: contents of STATE_FILE when the current run began
    pc,          \* position of the process inside main()
    maxPosts,    \* MAX_POSTS_PER_RUN of the current run
    resp,        \* history: what requests.get(JOBS_URL) produced in this run
    seen,        \* main's local `seen`
    loaded,      \* history: the set load_seen() returned in this run
    jobs,        \* main's local `jobs`
    new_jobs,    \* main's local `new_jobs`: sequence of <<jid, job>>
    posted,      \* main's local `posted`
    calls,       \* history: the listings passed to post_embed in this run
    failedAt,    \* history: index in calls of the post_embed call that raised, or 0
    saves,       \* history: number of save_seen calls in this run
    exit,        \* "running", "ok" (status 0) or "error" (non-zero status)
    delivered,   \* history: keys of the listings successfully posted in any run
    initSeen,    \* history: what load_seen() reads from the very first file
    title,       \* argument of a stand-alone is_analyst_role call
    verdict,     \* its result: <<>> before the call returns, <<b>> after
    L1, L2,      \* arguments of two stand-alone stable_job_id calls
    id1, id2     \* their results

runVars == <<file, fileAtStart, pc, maxPosts, resp, seen, loaded, jobs, new_jobs,
             posted, calls, failedAt, saves, exit, delivered, initSeen>>
fnVars == <<title, verdict, L1, L2, id1, id2>>
vars == <<runVars, fnVars>>

----------------------------------------------------------------------------
(* Bounds of the model. *)

\* longest feed a run fetches
MaxFeed == 3
\* largest MAX_POSTS_PER_RUN a run is configured with
MaxPosts == 3
\* most tokens a stand-alone title is built from
MaxTokens == 3

----------------------------------------------------------------------------
(* Python values. *)

Absent == [tag |-> "absent", v |-> ""]
None == [tag |-> "none", v |-> ""]
Str(s) == [tag |-> "str", v |-> s]
Num(d) == [tag |-> "int", v |-> d]

\* str(x)
PyStr(x) == IF x.tag = "none" THEN "None" ELSE x.v

\* bool(x)
Truthy(x) ==
    CASE x.tag = "str" -> x.v # ""
      [] x.tag = "int" -> x.v # "0"
      [] OTHER -> FALSE

\* the characters of the model in code-point order
ASCII == "\t\n ./0123456789ABCDEFGHIJKLMNOPQRSTUVWXYZabcdefghijklmnopqrstuvwxyz|"
UPPER == "ABCDEFGHIJKLMNOPQRSTUVWXYZ"
LOWER == "abcdefghijklmnopqrstuvwxyz"

At(s, i) == SubSeq(s, i, i)
Ord(c) == CHOOSE i \in 1..Len(ASCII) : At(ASCII, i) = c

\* what \s and str.strip() take for whitespace
IsSpace(c) == c \in {" ", "\t", "\n"}

\* str.lower() on one character
LowerOf == [c \in {At(UPPER, i) : i \in 1..Len(UPPER)} |->
               At(LOWER, CHOOSE i \in 1..Len(UPPER) : At(UPPER, i) = c)]
LowerChar(c) == IF c \in DOMAIN LowerOf THEN LowerOf[c] ELSE c

RECURSIVE LowerStr(_)
LowerStr(s) == IF s = "" THEN "" ELSE LowerChar(At(s, 1)) \o LowerStr(SubSeq(s, 2, Len(s)))

RECURSIVE LStrip(_)
LStrip(s) ==
    IF s # "" /\ IsSpace(At(s, 1)) THEN LStrip(SubSeq(s, 2, Len(s))) ELSE s

RECURSIVE RStrip(_)
RStrip(s) ==
    IF s # "" /\ IsSpace(At(s, Len(s))) THEN RStrip(SubSeq(s, 1, Len(s) - 1)) ELSE s

\* str.strip()
Strip(s) == RStrip(LStrip(s))

\* re.sub(r"\s+", " ", s)
RECURSIVE CollapseSpace(_)
CollapseSpace(s) ==
    IF s = "" THEN ""
    ELSE IF IsSpace(At(s, 1))
         THEN " " \o CollapseSpace(LStrip(s))
         ELSE At(s, 1) \o CollapseSpace(SubSeq(s, 2, Len(s)))

\* norm without the final .lower(): a slip that keeps the case
norm_KeepCase(s) == CollapseSpace(Strip(IF Truthy(s) THEN s.v ELSE ""))

\* norm(s): re.sub(r"\s+", " ", (s or "").strip()).lower(); s is a str or None
norm(s) == LowerStr(CollapseSpace(Strip(IF Truthy(s) THEN s.v ELSE "")))

\* k in t
RECURSIVE FindFrom(_, _, _)
FindFrom(t, k, i) ==
    IF i + Len(k) - 1 > Len(t) THEN FALSE
    ELSE IF SubSeq(t, i, i + Len(k) - 1) = k THEN TRUE
    ELSE FindFrom(t, k, i + 1)

In(k, t) == FindFrom(t, k, 1)

INCLUDE_TITLE_KEYWORDS ==
    << "data analyst", "business analyst", "product analyst", "analytics",
       "bi analyst", "business intelligence", "reporting analyst",
       "insights analyst", "data science", "data scientist", "science" >>

EXCLUDE_TITLE_KEYWORDS ==
    << "software engineer", "software development", "developer", "full stack",
       "frontend", "back end", "backend", "devops", "site reliability", "sre",
       "platform engineer", "ml engineer", "machine learning engineer",
       "data engineer", "cloud engineer", "security engineer", "product manager",
       "program manager", "director", "sr ", "senior ", "principal", "staff",
       "lead", "manager", "intern" >>

\* any(k in t for k in kws)
AnyIn(kws, t) == \E n \in 1..Len(kws) : In(kws[n], t)

\* is_analyst_role without the exclude test
is_analyst_role_NoExclude(t) == AnyIn(INCLUDE_TITLE_KEYWORDS, norm(t))

\* is_analyst_role(title)
is_analyst_role(t) ==
    LET n == norm(t) IN
    IF ~AnyIn(INCLUDE_TITLE_KEYWORDS, n) THEN FALSE
    ELSE IF AnyIn(EXCLUDE_TITLE_KEYWORDS, n) THEN FALSE
    ELSE TRUE

----------------------------------------------------------------------------
(* Listings.  A feed element is [isdict, f]: f maps each of the six keys    *)
(* to its JSON value, Absent when the object has no such key; isdict is     *)
(* FALSE for a feed element that is not a JSON object.                      *)

Fields == <<"employer_name", "job_title", "job_city", "job_state",
            "job_apply_link", "job_posted_at">>
FieldSet == {Fields[n] : n \in 1..Len(Fields)}

MkJob(e, t, c, s, l, p) ==
    [isdict |-> TRUE,
     f |-> [employer_name |-> e, job_title |-> t, job_city |-> c,
            job_state |-> s, job_apply_link |-> l, job_posted_at |-> p]]

\* job.get(k, default)
Get(job, k, default) == IF job.f[k].tag = "absent" THEN default ELSE job.f[k]

\* one line of stable_job_id: norm(str(job.get(k, "")))
KeyPart(job, k) == norm(Str(PyStr(Get(job, k, Str("")))))

\* stable_job_id(job), for a job that is a dict
stable_job_id(job) ==
    KeyPart(job, "employer_name") \o "||" \o KeyPart(job, "job_title") \o "||"
    \o KeyPart(job, "job_city") \o "||" \o KeyPart(job, "job_state") \o "||"
    \o KeyPart(job, "job_apply_link") \o "||" \o KeyPart(job, "job_posted_at")

----------------------------------------------------------------------------
(* STATE_FILE.  Its contents are [kind, elems]: kind is "missing" (no such  *)
(* file), "garbage" (bytes json.load rejects), "object" (JSON that is not   *)
(* a list) or "list", with elems the JSON values of the list.               *)

MissingFile == [kind |-> "missing", elems |-> <<>>]
GarbageFile == [kind |-> "garbage", elems |-> <<>>]
ObjectFile == [kind |-> "object", elems |-> <<>>]
ListFile(es) == [kind |-> "list", elems |-> es]

Ret(v) == [raises |-> FALSE, val |-> v]
Raise == [raises |-> TRUE, val |-> {}]

\* json.load(f)
JsonLoad(f) == IF f.kind = "garbage" THEN Raise ELSE Ret(f)

\* load_seen that keeps a list only when all of its elements are strings
load_seen_Strict(f) ==
    IF f.kind = "list" /\ \A n \in 1..Len(f.elems) : f.elems[n].tag = "str"
    THEN Ret({f.elems[n].v : n \in 1..Len(f.elems)})
    ELSE Ret({})

\* load_seen()
load_seen(f) ==
    IF f.kind = "missing" THEN Ret({})
    ELSE LET data == JsonLoad(f) IN
         IF data.raises THEN Ret({})
         ELSE IF data.val.kind = "list"
              THEN Ret({PyStr(data.val.elems[n]) : n \in 1..Len(data.val.elems)})
              ELSE Ret({})

\* a < b for str
RECURSIVE StrLess(_, _)
StrLess(a, b) ==
    IF b = "" THEN FALSE
    ELSE IF a = "" THEN TRUE
    ELSE IF At(a, 1) # At(b, 1) THEN Ord(At(a, 1)) < Ord(At(b, 1))
    ELSE StrLess(SubSeq(a, 2, Len(a)), SubSeq(b, 2, Len(b)))

\* sorted(S) for a set of str
RECURSIVE Sorted(_)
Sorted(S) ==
    IF S = {} THEN <<>>
    ELSE LET m == CHOOSE x \in S : \A y \in S \ {x} : StrLess(x, y)
         IN <<m>> \o Sorted(S \ {m})

\* save_seen that writes an empty list
save_seen_Empty(s) == ListFile(<<>>)

\* save_seen(seen): the contents STATE_FILE has afterwards
save_seen(s) == LET l == Sorted(s) IN ListFile([n \in 1..Len(l) |-> Str(l[n])])

----------------------------------------------------------------------------
(* The inputs of a run. *)

JobA == MkJob(Str("Acme"), Str("Data Analyst"), Str("Austin"), Str("TX"),
              Str("a.co/1"), Str("1d"))
\* JobA in another case and spacing
JobA2 == MkJob(Str(" ACME "), Str("data \t analyst"), Str("Austin\n"), Str("tx"),
               Str("A.co/1"), Str("1D"))
JobB == MkJob(None, Str("Software Engineer"), Absent, Absent, Str("b.co/2"), Absent)
\* a feed element that is not a JSON object
NotADict == [isdict |-> FALSE, f |-> MkJob(Absent, Absent, Absent, Absent, Absent, Absent).f]

Catalogue == {JobA, JobA2, JobB, NotADict}

RECURSIVE SeqsUpTo(_, _)
SeqsUpTo(S, n) ==
    IF n = 0 THEN {<<>>}
    ELSE LET shorter == SeqsUpTo(S, n - 1)
         IN shorter \cup {Append(q, x) : q \in {r \in shorter : Len(r) = n - 1}, x \in S}

Feeds == SeqsUpTo(Catalogue, MaxFeed)

\* stable_job_id on the listings of the catalogue, computed once
JobIds == [j \in Catalogue \ {NotADict} |-> stable_job_id(j)]

InitFiles ==
    { MissingFile, GarbageFile, ObjectFile, ListFile(<<>>),
      ListFile(<<Str(JobIds[JobA])>>), ListFile(<<None, Num("7")>>) }

\* what requests.get(JOBS_URL), raise_for_status() and r.json() can produce
FetchFailures == {"neterr", "status", "badjson"}
NoResp == [kind |-> "none", items |-> <<>>]

----------------------------------------------------------------------------
(* main() *)

Idle ==
    /\ pc = "idle"
    /\ fileAtStart = file
    /\ maxPosts = 0
    /\ resp = NoResp
    /\ seen = {}
    /\ loaded = {}
    /\ jobs = <<>>
    /\ new_jobs = <<>>
    /\ posted = 0
    /\ calls = <<>>
    /\ failedAt = 0
    /\ saves = 0
    /\ exit = "running"
    /\ delivered = {}
    /\ initSeen = load_seen(file).val

FnIdle ==
    /\ title = None
    /\ verdict = <<>>
    /\ L1 = JobA
    /\ L2 = JobA
    /\ id1 = "unset"
    /\ id2 = "unset"

Init == file \in InitFiles /\ Idle /\ FnIdle

\* the process starts, DISCORD_WEBHOOK_URL and MAX_POSTS_PER_RUN set, and runs
\* line 153: seen = load_seen()
LoadSeen ==
    /\ pc \in {"idle", "done", "crashed"}
    /\ \E n \in 0..MaxPosts : maxPosts' = n
    /\ LET r == load_seen(file) IN
       /\ seen' = r.val
       /\ loaded' = r.val
       /\ pc' = IF r.raises THEN "crashed" ELSE "fetch"
       /\ exit' = IF r.raises THEN "error" ELSE "running"
    /\ fileAtStart' = file
    /\ resp' = NoResp
    /\ jobs' = <<>>
    /\ new_jobs' = <<>>
    /\ posted' = 0
    /\ calls' = <<>>
    /\ failedAt' = 0
    /\ saves' = 0
    /\ UNCHANGED <<file, delivered, initSeen, fnVars>>

\* a failed fetch taken for an empty feed
FetchJobsFails_Swallowed ==
    /\ pc = "fetch"
    /\ \E k \in FetchFailures : resp' = [kind |-> k, items |-> <<>>]
    /\ jobs' = <<>>
    /\ pc' = "fetched"
    /\ UNCHANGED <<file, fileAtStart, maxPosts, seen, loaded, new_jobs, posted, calls,
                   failedAt, saves, exit, delivered, initSeen, fnVars>>

\* line 154, fetch_jobs raises: requests.get, raise_for_status or r.json() fails
FetchJobsFails ==
    /\ pc = "fetch"
    /\ \E k \in FetchFailures : resp' = [kind |-> k, items |-> <<>>]
    /\ pc' = "crashed"
    /\ exit' = "error"
    /\ UNCHANGED <<file, fileAtStart, maxPosts, seen, loaded, jobs, new_jobs, posted,
                   calls, failedAt, saves, delivered, initSeen, fnVars>>

\* line 154, fetch_jobs returns: the body parsed, a list or not
FetchJobsReturns ==
    /\ pc = "fetch"
    /\ \E r \in {[kind |-> "nonlist", items |-> <<>>]}
                \cup {[kind |-> "list", items |-> q] : q \in Feeds} :
          /\ resp' = r
          /\ jobs' = IF r.kind = "list" THEN r.items ELSE <<>>
    /\ pc' = "fetched"
    /\ UNCHANGED <<file, fileAtStart, maxPosts, seen, loaded, new_jobs, posted, calls,
                   failedAt, saves, exit, delivered, initSeen, fnVars>>

\* line 157
analyst_jobs == jobs

\* the longest prefix of q made of dicts: stable_job_id raises on the next element
RECURSIVE DictPrefix(_)
DictPrefix(q) ==
    IF q = <<>> \/ ~Head(q).isdict THEN <<>> ELSE <<Head(q)>> \o DictPrefix(Tail(q))

\* lines 160-167: the key loop, and the return when new_jobs is empty
BuildNewJobs ==
    /\ pc = "fetched"
    /\ LET ok == DictPrefix(analyst_jobs)
           built == [n \in 1..Len(ok) |-> <<JobIds[ok[n]], ok[n]>>]
       IN /\ new_jobs' = built
          /\ pc' = IF Len(ok) < Len(analyst_jobs) THEN "crashed"
                   ELSE IF built = <<>> THEN "done"
                   ELSE "posting"
          /\ exit' = IF Len(ok) < Len(analyst_jobs) THEN "error"
                     ELSE IF built = <<>> THEN "ok"
                     ELSE "running"
    /\ UNCHANGED <<file, fileAtStart, maxPosts, resp, seen, loaded, jobs, posted, calls,
                   failedAt, saves, delivered, initSeen, fnVars>>

Min(a, b) == IF a < b THEN a ELSE b

\* the slice with no limit
Selected_All == new_jobs

\* new_jobs[:MAX_POSTS_PER_RUN], for MAX_POSTS_PER_RUN >= 0
Selected == SubSeq(new_jobs, 1, Min(maxPosts, Len(new_jobs)))

\* lines 172-174: post_embed(job) returns
PostEmbedOk ==
    /\ pc = "posting"
    /\ posted < Len(Selected)
    /\ LET jid == Selected[posted + 1][1]
           job == Selected[posted + 1][2]
       IN /\ calls' = Append(calls, job)
          /\ seen' = seen \cup {jid}
          /\ delivered' = delivered \cup {jid}
    /\ posted' = posted + 1
    /\ UNCHANGED <<file, fileAtStart, pc, maxPosts, resp, loaded, jobs, new_jobs,
                   failedAt, saves, exit, initSeen, fnVars>>

\* a failed post_embed caught, the loop going on
PostEmbedFails_Swallowed ==
    /\ pc = "posting"
    /\ posted < Len(Selected)
    /\ calls' = Append(calls, Selected[posted + 1][2])
    /\ failedAt' = IF failedAt = 0 THEN Len(calls) + 1 ELSE failedAt
    /\ posted' = posted + 1
    /\ UNCHANGED <<file, fileAtStart, pc, maxPosts, resp, seen, loaded, jobs, new_jobs,
                   saves, exit, delivered, initSeen, fnVars>>

\* line 172: post_embed(job) raises (requests.post or raise_for_status fails)
PostEmbedFails ==
    /\ pc = "posting"
    /\ posted < Len(Selected)
    /\ calls' = Append(calls, Selected[posted + 1][2])
    /\ failedAt' = Len(calls) + 1
    /\ pc' = "crashed"
    /\ exit' = "error"
    /\ UNCHANGED <<file, fileAtStart, maxPosts, resp, seen, loaded, jobs, new_jobs,
                   posted, saves, delivered, initSeen, fnVars>>

\* the end of main without the save
SaveSeen_Skipped ==
    /\ pc = "posting"
    /\ posted = Len(Selected)
    /\ pc' = "done"
    /\ exit' = "ok"
    /\ UNCHANGED <<file, fileAtStart, maxPosts, resp, seen, loaded, jobs, new_jobs,
                   posted, calls, failedAt, saves, delivered, initSeen, fnVars>>

\* lines 176-177: the loop is over, save_seen(seen), main returns
SaveSeen ==
    /\ pc = "posting"
    /\ posted = Len(Selected)
    /\ file' = save_seen(seen)
    /\ saves' = saves + 1
    /\ pc' = "done"
    /\ exit' = "ok"
    /\ UNCHANGED <<fileAtStart, maxPosts, resp, seen, loaded, jobs, new_jobs, posted,
                   calls, failedAt, delivered, initSeen, fnVars>>

Next ==
    \/ LoadSeen
    \/ FetchJobsFails
    \/ FetchJobsReturns
    \/ BuildNewJobs
    \/ PostEmbedOk
    \/ PostEmbedFails
    \/ SaveSeen

Spec == Init /\ [][Next]_vars

----------------------------------------------------------------------------
(* is_analyst_role and stable_job_id called on their own. *)

Tokens == {"Senior ", "Data ", "DATA \t", "Analyst", "Scientist", "Software ",
           "Engineer", " Lead"}

RECURSIVE TitlesUpTo(_)
TitlesUpTo(n) ==
    IF n = 0 THEN {""}
    ELSE LET shorter == TitlesUpTo(n - 1)
         IN shorter \cup {t \o w : t \in shorter, w \in Tokens}

TitleArgs == {None} \cup {Str(t) : t \in TitlesUpTo(MaxTokens)}

InitClassify ==
    /\ file = MissingFile /\ Idle
    /\ title \in TitleArgs
    /\ verdict = <<>>
    /\ L1 = JobA /\ L2 = JobA /\ id1 = "unset" /\ id2 = "unset"

Classify ==
    /\ verdict = <<>>
    /\ verdict' = <<is_analyst_role(title)>>
    /\ UNCHANGED <<runVars, title, L1, L2, id1, id2>>

NextClassify == Classify

SpecClassify == InitClassify /\ [][NextClassify]_vars

FieldVals == {Absent, None, Str(""), Str("None"), Str(" Ab \t C"), Str("ab c")}
OtherVals == {Absent, Str(" TX")}

JobArgs ==
    {MkJob(e, t, c, s, l, p) : e \in FieldVals, t \in FieldVals,
                               c \in OtherVals, s \in OtherVals,
                               l \in OtherVals, p \in OtherVals}

\* L2 is L1 with one field replaced
InitIdentity ==
    /\ file = MissingFile /\ Idle
    /\ title = None /\ verdict = <<>>
    /\ L1 \in JobArgs
    /\ \E k \in FieldSet, x \in FieldVals : L2 = [L1 EXCEPT !.f[k] = x]
    /\ id1 = "unset" /\ id2 = "unset"

BuildIds ==
    /\ id1 = "unset"
    /\ id1' = stable_job_id(L1)
    /\ id2' = stable_job_id(L2)
    /\ UNCHANGED <<runVars, title, verdict, L1, L2>>

NextIdentity == BuildIds

SpecIdentity == InitIdentity /\ [][NextIdentity]_vars

----------------------------------------------------------------------------
(* The claims about a run of main(), checked under Spec. *)

\* the identity keys of the listings of q
KeysOf(q) == {JobIds[q[n]] : n \in 1..Len(q)}

\* is_analyst_role(job.get("job_title", "")) on the listings of the catalogue
IsAnalyst ==
    [j \in Catalogue \ {NotADict} |-> is_analyst_role(Get(j, "job_title", Str("")))]

\* C1: no listing whose identity key is in the set load_seen() returned at the
\* start of the run is passed to post_embed in that run.
C1_SeenNeverPosted == \A n \in 1..Len(calls) : JobIds[calls[n]] \notin loaded

\* C2: every listing passed to post_embed has a title that is_analyst_role accepts.
C2_OnlyAnalystPosted == \A n \in 1..Len(calls) : IsAnalyst[calls[n]]

\* C3: once a post_embed call has raised, the run has ended with a non-zero
\* status, that call is the last post_embed call of the run, save_seen was not
\* called and STATE_FILE is what it was when the run began.
C3_DeliveryFailureAborts ==
    failedAt # 0 =>
        /\ pc = "crashed"
        /\ exit = "error"
        /\ Len(calls) = failedAt
        /\ saves = 0
        /\ file = fileAtStart

\* the second of three selected listings failed after the first was delivered
C3_Witness ==
    /\ failedAt = 2
    /\ maxPosts = 3
    /\ Len(new_jobs) = 3
    /\ seen # loaded
    /\ pc = "crashed"

\* C4 as stated: a run that has ended, its feed made of listings, attempted
\* exactly the first min(N, number of candidates) candidates, in feed order.
C4_Original ==
    (pc \in {"done", "crashed"} /\ Len(new_jobs) = Len(jobs)) =>
        calls = SubSeq(analyst_jobs, 1, Min(maxPosts, Len(analyst_jobs)))

\* C4 as amended: a run makes at most N calls of post_embed; the listings it
\* attempts are the first Len(calls) fetched listings, in feed order; and a run
\* that completes attempted exactly the first min(N, number fetched) of them.
C4_RateLimitPrefix ==
    /\ Len(calls) <= maxPosts
    /\ Len(calls) <= Len(jobs)
    /\ \A n \in 1..Len(calls) : calls[n] = jobs[n]
    /\ pc = "done" => Len(calls) = Min(maxPosts, Len(jobs))

\* a completed run that posted the first two of three distinct listings
C4_Witness ==
    /\ pc = "done"
    /\ maxPosts = 2
    /\ Len(jobs) = 3
    /\ Len(calls) = 2
    /\ calls[1] # calls[2]
    /\ jobs[3] # calls[2]

\* C5 as stated: every run that completes has called save_seen, and with no
\* fetched listing, no candidate or a maximum of zero it attempted no delivery
\* and the persisted set equals the loaded one.
C5_Original ==
    pc = "done" =>
        /\ saves = 1
        /\ (new_jobs = <<>> \/ maxPosts = 0) =>
               (calls = <<>> /\ load_seen(file).val = loaded)

\* C5 as amended: a run that completes has called save_seen exactly when
\* new_jobs was not empty (a maximum of zero included); with new_jobs empty it
\* returns without calling save_seen and STATE_FILE is untouched; with new_jobs
\* empty or a maximum of zero it attempted no delivery and the persisted set
\* equals the loaded one.
C5_SavedUnlessNothingNew ==
    pc = "done" =>
        /\ new_jobs # <<>> => saves = 1
        /\ new_jobs = <<>> => (saves = 0 /\ file = fileAtStart)
        /\ (new_jobs = <<>> \/ maxPosts = 0) =>
               (calls = <<>> /\ load_seen(file).val = loaded)

\* a run that fetched an empty list completed, and STATE_FILE is still missing
C5_Witness ==
    /\ pc = "done"
    /\ resp.kind = "list"
    /\ jobs = <<>>
    /\ saves = 0
    /\ file = MissingFile

\* C6: after a run whose deliveries all succeeded, STATE_FILE holds the loaded
\* set united with the keys of the listings passed to post_embed; the persisted
\* set never shrinks, and holds only its first content and keys of delivered
\* listings.
C6_PersistedContent ==
    /\ (pc = "done" /\ saves = 1) => load_seen(file).val = loaded \cup KeysOf(calls)
    /\ load_seen(fileAtStart).val \subseteq load_seen(file).val
    /\ initSeen \subseteq load_seen(file).val
    /\ load_seen(file).val \subseteq initSeen \cup delivered

\* a run that loaded a non-empty set delivered two listings, one of them new
C6_Witness ==
    /\ pc = "done"
    /\ saves = 1
    /\ Len(calls) = 2
    /\ loaded # {}
    /\ ~(KeysOf(calls) \subseteq loaded)
    /\ Cardinality(load_seen(file).val) = Cardinality(loaded) + 1

\* C7: when fetch_jobs fails the run has ended with a non-zero status, no
\* post_embed call and no save_seen call, STATE_FILE unchanged; a parsed body
\* that is not a list gives an empty jobs list and no failure.
C7_FetchFailureAborts ==
    /\ resp.kind \in FetchFailures =>
           /\ pc = "crashed"
           /\ exit = "error"
           /\ calls = <<>>
           /\ saves = 0
           /\ file = fileAtStart
    /\ resp.kind = "nonlist" =>
           /\ jobs = <<>>
           /\ pc \in {"fetched", "done"}
           /\ exit # "error"

\* a run whose fetch got an error status, over a non-empty seen file
C7_Witness ==
    /\ resp.kind = "status"
    /\ pc = "crashed"
    /\ load_seen(file).val # {}

IsListOfStr(f) ==
    f.kind = "list" /\ \A n \in 1..Len(f.elems) : f.elems[n].tag = "str"

\* C8 as stated: load_seen never raises, and returns the empty set whenever
\* STATE_FILE is missing or is not a JSON list of strings.
C8_Original ==
    /\ pc = "crashed" => resp # NoResp
    /\ (pc = "fetch" /\ ~IsListOfStr(file)) => seen = {}

\* C8 as amended: load_seen never raises; it returns the empty set when
\* STATE_FILE is missing, unparseable or not a JSON list; for a JSON list it
\* returns the set of str(e) of its elements e, strings or not.
C8_LoadSeenTotal ==
    /\ pc = "crashed" => resp # NoResp
    /\ (pc = "fetch" /\ file.kind \in {"missing", "garbage", "object"}) => seen = {}
    /\ (pc = "fetch" /\ file.kind = "list") =>
           seen = {PyStr(file.elems[n]) : n \in 1..Len(file.elems)}
    /\ (pc = "fetch" /\ file = ListFile(<<None, Num("7")>>)) => seen = {"None", "7"}

\* a list with non-string elements was loaded as their str() values
C8_Witness ==
    /\ pc = "fetch"
    /\ file = ListFile(<<None, Num("7")>>)
    /\ seen = {"None", "7"}

----------------------------------------------------------------------------
(* The claims about the pure functions. *)

\* the normalization C9 describes: absent and null give the empty string
ClaimNorm(x) == IF x.tag \in {"absent", "none"} THEN "" ELSE norm(x)

\* C9 (checked under SpecIdentity): two listings whose six fields are pairwise
\* equal after normalization have the same key, and the key is the six
\* normalized fields joined by "||" in the order of Fields.
C9_IdentityStability ==
    id1 # "unset" =>
        /\ (\A k \in FieldSet : ClaimNorm(L1.f[k]) = ClaimNorm(L2.f[k])) => id1 = id2
        /\ id1 = ClaimNorm(L1.f.employer_name) \o "||" \o ClaimNorm(L1.f.job_title)
                 \o "||" \o ClaimNorm(L1.f.job_city) \o "||" \o ClaimNorm(L1.f.job_state)
                 \o "||" \o ClaimNorm(L1.f.job_apply_link) \o "||"
                 \o ClaimNorm(L1.f.job_posted_at)

\* t has k as a substring
Contains(t, k) == \E i \in 1..(Len(t) - Len(k) + 1) : SubSeq(t, i, i + Len(k) - 1) = k

\* C10 (checked under SpecClassify): is_analyst_role(t) is True exactly when
\* norm(t) contains an include keyword and no exclude keyword; the three titles
\* of the spec get the verdicts it gives; the call leaves the run state alone.
C10_ClassifierRule ==
    verdict # <<>> =>
        /\ verdict[1] =
              (/\ \E n \in 1..Len(INCLUDE_TITLE_KEYWORDS) :
                      Contains(norm(title), INCLUDE_TITLE_KEYWORDS[n])
               /\ ~\E n \in 1..Len(EXCLUDE_TITLE_KEYWORDS) :
                      Contains(norm(title), EXCLUDE_TITLE_KEYWORDS[n]))
        /\ title = Str("Senior Data Scientist") => verdict[1] = FALSE
        /\ title = Str("Data Analyst") => verdict[1] = TRUE
        /\ title = Str("Software Engineer") => verdict[1] = FALSE
        /\ file = MissingFile /\ Idle

\* exclusion won over inclusion
C10_Witness ==
    /\ title = Str("Senior Data Scientist")
    /\ verdict = <<FALSE>>
    /\ In("data scientist", norm(title))

====
